---- MODULE Spec2Model ----
(***************************************************************************)
(* Model of the concurrent load generator of main.go: main, runLoadTest,   *)
(* the worker goroutines, sendRequest's lock-free statistics recording,    *)
(* the wait-group goroutine and printResults.                              *)
(*                                                                         *)
(* Every atomic operation of sendRequest (atomic.Int64 Add / Load /        *)
(* CompareAndSwap, sync.Map Load / Store) and every channel operation is   *)
(* one step, so that all interleavings of the goroutines are explored.     *)
(***************************************************************************)
EXTENDS Integers, Sequences, FiniteSets, TLC

\* ------------------------------------------------------------------ bounds
\* Largest config.NumRequests (-n) and config.Concurrency (-c) explored.
MaxN == 2
MaxC == 2
\* Durations returned by time.Since are drawn from 1..MaxDur.  A request lasts
\* longer than Hour only when the timeout allows it (-t 0, or -t above 3600).
MaxDur == 4
\* Length of a non-empty config.Body (-d); the empty body has length 0.
MaxBody == 1

\* ------------------------------------------------- constants of the program
\* int64(time.Hour), the initial MinDuration.  One model time unit stands for
\* 20 minutes, so that durations below, at and above the sentinel exist.
Hour == 3
\* The progress cadence: completed%100 == 0.
ProgressEvery == 100

Workers == 0 .. (MaxC - 1)
Jobs == 0 .. (MaxN - 1)
Durations == 1 .. MaxDur
\* resp.StatusCode values the server answers with.
StatusCodeValues == {200, 500}
\* What client.Do returns: a transport error (err != nil) or a response.
\* (resp is nil) or a response with its status code.
ErrOutcome == [err |-> TRUE, StatusCode |-> 0]
Outcomes == {ErrOutcome} \cup {[err |-> FALSE, StatusCode |-> c] : c \in StatusCodeValues}
NoOutcome == [err |-> FALSE, StatusCode |-> 0]
URLs == {"", "bad", "ok"}

VARIABLES
    config,             \* *Config: [URL, NumRequests, Concurrency, Body]
    mainPc,             \* position of the main goroutine
    exitCode,           \* process exit status, -1 while running
    TotalRequests, SuccessfulRequests, FailedRequests,
    TotalDuration, MinDuration, MaxDuration,
    StatusCodes,        \* sync.Map: status code -> count
    baseReq,            \* the request template: [Header, ContentLength, bodyOff]
    jobs, jobsClosed,   \* chan int, buffer and closed flag
    results, resultsClosed, \* chan bool: number of buffered values, closed flag
    wg,                 \* sync.WaitGroup counter
    started,            \* loop variable w of the start-workers loop
    sent,               \* loop variable i of the send-jobs loop
    completed,          \* progress loop counter
    progress,           \* the values printed by the progress loop
    waiterPc,           \* position of the goroutine of lines 141-144
    wpc,                \* position of each worker
    local,              \* each worker's locals inside sendRequest
    history,            \* per job: calls of sendRequest, outcome, duration, body sent
    printed             \* what printResults read

stats == <<TotalRequests, SuccessfulRequests, FailedRequests,
           TotalDuration, MinDuration, MaxDuration, StatusCodes>>
chans == <<jobs, jobsClosed, results, resultsClosed, wg>>
mainv == <<mainPc, exitCode, started, sent, completed, progress, printed>>
vars == <<config, stats, baseReq, chans, mainv, waiterPc, wpc, local, history>>

NoLocal == [requestNum |-> -1, Header |-> {}, bodyOff |-> 0, outcome |-> NoOutcome, durationNs |-> 0,
            currentMin |-> 0, currentMax |-> 0, count |-> 0,
            minRetries |-> 0, maxRetries |-> 0]
NoHistory == [calls |-> 0, by |-> {}, returned |-> FALSE, outcome |-> NoOutcome,
              duration |-> 0, bodySent |-> 0]
NoReq == [Header |-> {}, ContentLength |-> 0, bodyOff |-> 0]

\* ------------------------------------------------------------------- Init
\* The process right after parseFlags: the zero-valued Stats, nothing started,
\* for any configuration the flags can give.
InitState ==
    /\ mainPc = "main"
    /\ exitCode = -1
    /\ TotalRequests = 0 /\ SuccessfulRequests = 0 /\ FailedRequests = 0
    /\ TotalDuration = 0 /\ MinDuration = 0 /\ MaxDuration = 0
    /\ StatusCodes = <<>>
    /\ baseReq = NoReq
    /\ jobs = <<>> /\ jobsClosed = FALSE
    /\ results = 0 /\ resultsClosed = FALSE
    /\ wg = 0
    /\ started = 0 /\ sent = 0 /\ completed = 0 /\ progress = <<>>
    /\ waiterPc = "none"
    /\ wpc = [w \in Workers |-> "unborn"]
    /\ local = [w \in Workers |-> NoLocal]
    /\ history = [j \in Jobs |-> NoHistory]
    /\ printed = [branch |-> "none"]

Init ==
    /\ config \in [URL : URLs, NumRequests : 0 .. MaxN,
                   Concurrency : 0 .. MaxC, Body : {0, MaxBody}]
    /\ InitState

\* ------------------------------------------------------------ main goroutine
\* main, lines 42-57: the empty URL ends the process with status 1; otherwise
\* Stats is created and MinDuration is stored.
MainStart ==
    /\ mainPc = "main"
    /\ IF config.URL = ""
         THEN /\ mainPc' = "exited" /\ exitCode' = 1
              /\ UNCHANGED MinDuration
         ELSE /\ mainPc' = "runLoadTest" /\ MinDuration' = Hour
              /\ UNCHANGED exitCode
    /\ UNCHANGED <<config, TotalRequests, SuccessfulRequests, FailedRequests,
                   TotalDuration, MaxDuration, StatusCodes, baseReq, chans,
                   started, sent, completed, progress, printed,
                   waiterPc, wpc, local, history>>

\* createBaseRequest: http.NewRequestWithContext fails on a URL it cannot
\* parse (the URL "bad" stands for every argument it rejects); otherwise the template carries the default headers, Content-Type
\* when a body is configured, and the body reader positioned at offset 0.
createBaseRequest(c) ==
    IF c.URL = "bad"
      THEN [err |-> TRUE, req |-> NoReq]
      ELSE [err |-> FALSE,
            req |-> [Header |-> {"User-Agent", "Accept", "Connection"}
                                  \cup (IF c.Body # 0 THEN {"Content-Type"} ELSE {}),
                     ContentLength |-> c.Body,
                     bodyOff |-> 0]]

\* MainCreateBaseRequest that does not check err.
MainCreateBaseRequestIgnoresErr ==
    /\ mainPc = "runLoadTest"
    /\ mainPc' = "startWorkers"
    /\ baseReq' = createBaseRequest(config).req
    /\ UNCHANGED <<config, stats, chans, exitCode, started, sent, completed, progress,
                   printed, waiterPc, wpc, local, history>>

\* runLoadTest, lines 112-125: the channels are made, the template is built;
\* a failure prints the error and exits with status 1.
MainCreateBaseRequest ==
    /\ mainPc = "runLoadTest"
    /\ LET r == createBaseRequest(config) IN
         IF r.err
           THEN /\ mainPc' = "exited" /\ exitCode' = 1
                /\ UNCHANGED baseReq
           ELSE /\ mainPc' = "startWorkers" /\ baseReq' = r.req
                /\ UNCHANGED exitCode
    /\ UNCHANGED <<config, stats, chans, started, sent, completed, progress,
                   printed, waiterPc, wpc, local, history>>

\* MainStartWorker with w <= config.Concurrency as the loop condition.
MainStartWorkerOffByOne ==
    /\ mainPc = "startWorkers"
    /\ IF started <= config.Concurrency
         THEN /\ wg' = wg + 1
              /\ wpc' = [wpc EXCEPT ![started] = "range"]
              /\ started' = started + 1
              /\ UNCHANGED mainPc
         ELSE /\ mainPc' = "sendJobs"
              /\ UNCHANGED <<wg, wpc, started>>
    /\ UNCHANGED <<config, stats, baseReq, jobs, jobsClosed, results, resultsClosed,
                   exitCode, sent, completed, progress, printed,
                   waiterPc, local, history>>

\* runLoadTest, lines 128-132: one iteration of the start-workers loop, or
\* its exit.
MainStartWorker ==
    /\ mainPc = "startWorkers"
    /\ IF started < config.Concurrency
         THEN /\ wg' = wg + 1
              /\ wpc' = [wpc EXCEPT ![started] = "range"]
              /\ started' = started + 1
              /\ UNCHANGED mainPc
         ELSE /\ mainPc' = "sendJobs"
              /\ UNCHANGED <<wg, wpc, started>>
    /\ UNCHANGED <<config, stats, baseReq, jobs, jobsClosed, results, resultsClosed,
                   exitCode, sent, completed, progress, printed,
                   waiterPc, local, history>>

\* MainSendJob without the close(jobs) after the loop.
MainSendJobNoClose ==
    /\ mainPc = "sendJobs"
    /\ IF sent < config.NumRequests
         THEN /\ Len(jobs) < config.NumRequests
              /\ jobs' = Append(jobs, sent)
              /\ sent' = sent + 1
              /\ UNCHANGED <<mainPc, waiterPc>>
         ELSE /\ waiterPc' = "wait"
              /\ mainPc' = "progress"
              /\ UNCHANGED <<jobs, sent>>
    /\ UNCHANGED <<config, stats, baseReq, jobsClosed, results, resultsClosed, wg,
                   exitCode, started, completed, progress, printed,
                   wpc, local, history>>

\* runLoadTest, lines 135-144: one iteration of the send-jobs loop (the buffer
\* holds NumRequests values, so the send never blocks), or its exit: the jobs
\* channel is closed and the goroutine that waits for the workers is started.
MainSendJob ==
    /\ mainPc = "sendJobs"
    /\ IF sent < config.NumRequests
         THEN /\ Len(jobs) < config.NumRequests
              /\ jobs' = Append(jobs, sent)
              /\ sent' = sent + 1
              /\ UNCHANGED <<mainPc, jobsClosed, waiterPc>>
         ELSE /\ jobsClosed' = TRUE
              /\ waiterPc' = "wait"
              /\ mainPc' = "progress"
              /\ UNCHANGED <<jobs, sent>>
    /\ UNCHANGED <<config, stats, baseReq, results, resultsClosed, wg,
                   exitCode, started, completed, progress, printed,
                   wpc, local, history>>

\* MainProgress whose loop ends on the empty channel instead of the closed one.
MainProgressReturnsOnEmpty ==
    /\ mainPc = "progress"
    /\ IF results > 0
         THEN /\ results' = results - 1
              /\ completed' = completed + 1
              /\ progress' = IF (completed + 1) % ProgressEvery = 0
                               THEN Append(progress, completed + 1)
                               ELSE progress
              /\ UNCHANGED mainPc
         ELSE /\ mainPc' = "returned"
              /\ UNCHANGED <<results, completed, progress>>
    /\ UNCHANGED <<config, stats, baseReq, jobs, jobsClosed, resultsClosed, wg,
                   exitCode, started, sent, printed,
                   waiterPc, wpc, local, history>>

\* MainProgress that tests completed%100 before the increment.
MainProgressTestsBeforeIncrement ==
    /\ mainPc = "progress"
    /\ IF results > 0
         THEN /\ results' = results - 1
              /\ completed' = completed + 1
              /\ progress' = IF completed % ProgressEvery = 0
                               THEN Append(progress, completed + 1)
                               ELSE progress
              /\ UNCHANGED mainPc
         ELSE /\ resultsClosed
              /\ mainPc' = "returned"
              /\ UNCHANGED <<results, completed, progress>>
    /\ UNCHANGED <<config, stats, baseReq, jobs, jobsClosed, resultsClosed, wg,
                   exitCode, started, sent, printed,
                   waiterPc, wpc, local, history>>

\* runLoadTest, lines 147-154: one iteration of `for range results`, or its
\* end once the channel is closed and drained, which returns from runLoadTest.
MainProgress ==
    /\ mainPc = "progress"
    /\ IF results > 0
         THEN /\ results' = results - 1
              /\ completed' = completed + 1
              /\ progress' = IF (completed + 1) % ProgressEvery = 0
                               THEN Append(progress, completed + 1)
                               ELSE progress
              /\ UNCHANGED mainPc
         ELSE /\ resultsClosed
              /\ mainPc' = "returned"
              /\ UNCHANGED <<results, completed, progress>>
    /\ UNCHANGED <<config, stats, baseReq, jobs, jobsClosed, resultsClosed, wg,
                   exitCode, started, sent, printed,
                   waiterPc, wpc, local, history>>

\* printResults without the totalRequests == 0 return: the integer division
\* by zero is a run-time panic.
printResultsNoZeroCheck ==
    [branch |-> IF TotalRequests = 0 THEN "panic" ELSE "stats",
     total |-> TotalRequests,
     successful |-> SuccessfulRequests,
     failed |-> FailedRequests,
     avgDuration |-> IF TotalRequests = 0 THEN 0 ELSE TotalDuration \div TotalRequests,
     min |-> MinDuration, max |-> MaxDuration,
     statusCodes |-> StatusCodes]

\* printResults, lines 284-301: the snapshot read.  With no request recorded
\* it returns before any division.
printResults ==
    IF TotalRequests = 0
      THEN [branch |-> "empty"]
      ELSE [branch |-> "stats",
            total |-> TotalRequests,
            successful |-> SuccessfulRequests,
            failed |-> FailedRequests,
            avgDuration |-> TotalDuration \div TotalRequests,
            min |-> MinDuration, max |-> MaxDuration,
            statusCodes |-> StatusCodes]

\* main, lines 61-64.
MainPrintResults ==
    /\ mainPc = "returned"
    /\ printed' = printResults
    /\ mainPc' = "exited" /\ exitCode' = 0
    /\ UNCHANGED <<config, stats, baseReq, chans, started, sent, completed,
                   progress, waiterPc, wpc, local, history>>

\* ------------------------------------------------- the goroutine of 141-144
\* WaiterWait that does not wait for the counter to reach zero.
WaiterWaitNoBarrier ==
    /\ waiterPc = "wait"
    /\ waiterPc' = "close"
    /\ UNCHANGED <<config, stats, baseReq, chans, mainv, wpc, local, history>>

WaiterWait ==
    /\ waiterPc = "wait"
    /\ wg = 0
    /\ waiterPc' = "close"
    /\ UNCHANGED <<config, stats, baseReq, chans, mainv, wpc, local, history>>

WaiterClose ==
    /\ waiterPc = "close"
    /\ resultsClosed' = TRUE
    /\ waiterPc' = "done"
    /\ UNCHANGED <<config, stats, baseReq, jobs, jobsClosed, results, wg,
                   mainv, wpc, local, history>>

\* ------------------------------------------------------------------ workers
\* WorkerRange with a receive that leaves the job in the channel.
WorkerRangePeek(w) ==
    /\ wpc[w] = "range"
    /\ IF Len(jobs) > 0
         THEN /\ local' = [local EXCEPT ![w].requestNum = Head(jobs)]
              /\ wpc' = [wpc EXCEPT ![w] = "clone"]
              /\ UNCHANGED <<wg, jobs>>
         ELSE /\ jobsClosed
              /\ wg' = wg - 1
              /\ wpc' = [wpc EXCEPT ![w] = "exited"]
              /\ UNCHANGED <<jobs, local>>
    /\ UNCHANGED <<config, stats, baseReq, jobsClosed, results, resultsClosed,
                   mainv, waiterPc, history>>

\* worker, lines 213-215: `for requestNum := range jobs` receives the next
\* job; on the closed and drained channel the loop ends and the deferred
\* wg.Done runs.  On the open and empty channel the worker blocks.
WorkerRange(w) ==
    /\ wpc[w] = "range"
    /\ IF Len(jobs) > 0
         THEN /\ local' = [local EXCEPT ![w].requestNum = Head(jobs)]
              /\ jobs' = Tail(jobs)
              /\ wpc' = [wpc EXCEPT ![w] = "clone"]
              /\ UNCHANGED wg
         ELSE /\ jobsClosed
              /\ wg' = wg - 1
              /\ wpc' = [wpc EXCEPT ![w] = "exited"]
              /\ UNCHANGED <<jobs, local>>
    /\ UNCHANGED <<config, stats, baseReq, jobsClosed, results, resultsClosed,
                   mainv, waiterPc, history>>

\* http.Request.Clone: a deep copy of the header, a shallow copy of everything
\* else.  The Body field of the clone is the template's reader, so the clone
\* has no body state of its own: it reads through baseReq.bodyOff.
Clone(req) == [Header |-> req.Header, ContentLength |-> req.ContentLength]

\* sendRequest, lines 223-226: the request is cloned, client.Do is entered and
\* the transport's Read of the body loads the reader's offset.
SendRequestClone(w) ==
    /\ wpc[w] = "clone"
    /\ local' = [local EXCEPT ![w].Header = Clone(baseReq).Header,
                              ![w].bodyOff = baseReq.bodyOff]
    /\ history' = [history EXCEPT ![local[w].requestNum].calls = @ + 1,
                                  ![local[w].requestNum].by = @ \cup {w}]
    /\ wpc' = [wpc EXCEPT ![w] = "do"]
    /\ UNCHANGED <<config, stats, baseReq, chans, mainv, waiterPc>>

\* The Read of the shared bytes.Buffer completes: it copies the bytes from the
\* offset it loaded to the end and leaves the reader at its end.  The load and
\* the store are not one atomic step, so two requests that are inside
\* client.Do together can both read the whole body.
BodyRead(w) == [n |-> baseReq.ContentLength - local[w].bodyOff,
                off |-> baseReq.ContentLength]

\* What client.Do may return after writing n body bytes: the transport
\* reports a body shorter than ContentLength as an error; otherwise the
\* call fails (network error, timeout, ...) or a response arrives.
DoOutcomes(n) ==
    IF n < baseReq.ContentLength THEN {ErrOutcome} ELSE Outcomes

\* sendRequest, lines 226-227: client.Do returns and the duration is taken.
ClientDo(w) ==
    /\ wpc[w] = "do"
    /\ LET rd == BodyRead(w) IN
         \E d \in Durations, o \in DoOutcomes(rd.n) :
           /\ baseReq' = [baseReq EXCEPT !.bodyOff = rd.off]
           /\ local' = [local EXCEPT ![w].outcome = o, ![w].durationNs = d]
           /\ history' = [history EXCEPT ![local[w].requestNum].returned = TRUE,
                                         ![local[w].requestNum].outcome = o,
                                         ![local[w].requestNum].duration = d,
                                         ![local[w].requestNum].bodySent = rd.n]
    /\ wpc' = [wpc EXCEPT ![w] = "addTotal"]
    /\ UNCHANGED <<config, stats, chans, mainv, waiterPc>>

\* sendRequest, line 229: stats.TotalRequests.Add(1).
AddTotalRequests(w) ==
    /\ wpc[w] = "addTotal"
    /\ TotalRequests' = TotalRequests + 1
    /\ wpc' = [wpc EXCEPT ![w] = "addDuration"]
    /\ UNCHANGED <<config, SuccessfulRequests, FailedRequests, TotalDuration,
                   MinDuration, MaxDuration, StatusCodes, baseReq, chans,
                   mainv, waiterPc, local, history>>

\* AddTotalDuration with Store in place of Add.
AddTotalDurationStore(w) ==
    /\ wpc[w] = "addDuration"
    /\ TotalDuration' = local[w].durationNs
    /\ wpc' = [wpc EXCEPT ![w] = "minLoad"]
    /\ UNCHANGED <<config, TotalRequests, SuccessfulRequests, FailedRequests,
                   MinDuration, MaxDuration, StatusCodes, baseReq, chans,
                   mainv, waiterPc, local, history>>

\* sendRequest, line 230: stats.TotalDuration.Add(int64(duration)).
AddTotalDuration(w) ==
    /\ wpc[w] = "addDuration"
    /\ TotalDuration' = TotalDuration + local[w].durationNs
    /\ wpc' = [wpc EXCEPT ![w] = "minLoad"]
    /\ UNCHANGED <<config, TotalRequests, SuccessfulRequests, FailedRequests,
                   MinDuration, MaxDuration, StatusCodes, baseReq, chans,
                   mainv, waiterPc, local, history>>

\* sendRequest, lines 235-236, 240-242: the load of the minimum and the
\* comparison; the loop is left when the duration is not smaller.
MinLoad(w) ==
    /\ wpc[w] = "minLoad"
    /\ local' = [local EXCEPT ![w].currentMin = MinDuration]
    /\ wpc' = [wpc EXCEPT ![w] = IF local[w].durationNs < MinDuration
                                    THEN "minCAS" ELSE "maxLoad"]
    /\ UNCHANGED <<config, stats, baseReq, chans, mainv, waiterPc, history>>

\* MinCAS with a plain Store in place of CompareAndSwap.
MinCASStore(w) ==
    /\ wpc[w] = "minCAS"
    /\ MinDuration' = local[w].durationNs
    /\ wpc' = [wpc EXCEPT ![w] = "maxLoad"]
    /\ UNCHANGED <<config, TotalRequests, SuccessfulRequests, FailedRequests,
                   TotalDuration, MaxDuration, StatusCodes, baseReq, chans,
                   mainv, waiterPc, local, history>>

\* sendRequest, lines 237-239: CompareAndSwap(currentMin, durationNs); the
\* loop is left on success and repeated on failure.  minRetries counts the
\* repetitions of the loop of lines 234-243 within the current call.
MinCAS(w) ==
    /\ wpc[w] = "minCAS"
    /\ IF MinDuration = local[w].currentMin
         THEN /\ MinDuration' = local[w].durationNs
              /\ wpc' = [wpc EXCEPT ![w] = "maxLoad"]
              /\ UNCHANGED local
         ELSE /\ UNCHANGED MinDuration
              /\ wpc' = [wpc EXCEPT ![w] = "minLoad"]
              /\ local' = [local EXCEPT ![w].minRetries = @ + 1]
    /\ UNCHANGED <<config, TotalRequests, SuccessfulRequests, FailedRequests,
                   TotalDuration, MaxDuration, StatusCodes, baseReq, chans,
                   mainv, waiterPc, history>>

\* sendRequest, lines 246-247, 251-253.
MaxLoad(w) ==
    /\ wpc[w] = "maxLoad"
    /\ local' = [local EXCEPT ![w].currentMax = MaxDuration]
    /\ wpc' = [wpc EXCEPT ![w] = IF local[w].durationNs > MaxDuration
                                    THEN "maxCAS" ELSE "record"]
    /\ UNCHANGED <<config, stats, baseReq, chans, mainv, waiterPc, history>>

\* MaxCAS with a plain Store in place of CompareAndSwap.
MaxCASStore(w) ==
    /\ wpc[w] = "maxCAS"
    /\ MaxDuration' = local[w].durationNs
    /\ wpc' = [wpc EXCEPT ![w] = "record"]
    /\ UNCHANGED <<config, TotalRequests, SuccessfulRequests, FailedRequests,
                   TotalDuration, MinDuration, StatusCodes, baseReq, chans,
                   mainv, waiterPc, local, history>>

\* sendRequest, lines 248-250.  maxRetries counts the repetitions of the loop
\* of lines 245-254 within the current call.
MaxCAS(w) ==
    /\ wpc[w] = "maxCAS"
    /\ IF MaxDuration = local[w].currentMax
         THEN /\ MaxDuration' = local[w].durationNs
              /\ wpc' = [wpc EXCEPT ![w] = "record"]
              /\ UNCHANGED local
         ELSE /\ UNCHANGED MaxDuration
              /\ wpc' = [wpc EXCEPT ![w] = "maxLoad"]
              /\ local' = [local EXCEPT ![w].maxRetries = @ + 1]
    /\ UNCHANGED <<config, TotalRequests, SuccessfulRequests, FailedRequests,
                   TotalDuration, MinDuration, StatusCodes, baseReq, chans,
                   mainv, waiterPc, history>>

\* RecordOutcome without the FailedRequests.Add(1) of the error branch.
RecordOutcomeDropsFailure(w) ==
    /\ wpc[w] = "record"
    /\ IF local[w].outcome.err
         THEN /\ wpc' = [wpc EXCEPT ![w] = "result"]
              /\ UNCHANGED <<SuccessfulRequests, FailedRequests>>
         ELSE /\ SuccessfulRequests' = SuccessfulRequests + 1
              /\ wpc' = [wpc EXCEPT ![w] = "mapLoad"]
              /\ UNCHANGED FailedRequests
    /\ UNCHANGED <<config, TotalRequests, TotalDuration, MinDuration, MaxDuration,
                   StatusCodes, baseReq, chans, mainv, waiterPc, local, history>>

\* RecordOutcome whose error branch ends the worker (wg.Done runs) instead of
\* returning to the loop.
RecordOutcomeAborts(w) ==
    /\ wpc[w] = "record"
    /\ IF local[w].outcome.err
         THEN /\ FailedRequests' = FailedRequests + 1
              /\ wpc' = [wpc EXCEPT ![w] = "exited"]
              /\ wg' = wg - 1
              /\ UNCHANGED SuccessfulRequests
         ELSE /\ SuccessfulRequests' = SuccessfulRequests + 1
              /\ wpc' = [wpc EXCEPT ![w] = "mapLoad"]
              /\ UNCHANGED <<FailedRequests, wg>>
    /\ UNCHANGED <<config, TotalRequests, TotalDuration, MinDuration, MaxDuration,
                   StatusCodes, baseReq, jobs, jobsClosed, results, resultsClosed,
                   mainv, waiterPc, local, history>>

\* RecordOutcome that counts a response with a status of 400 or more as failed.
RecordOutcomeByStatus(w) ==
    /\ wpc[w] = "record"
    /\ IF local[w].outcome.err \/ local[w].outcome.StatusCode >= 400
         THEN /\ FailedRequests' = FailedRequests + 1
              /\ wpc' = [wpc EXCEPT ![w] = "result"]
              /\ UNCHANGED SuccessfulRequests
         ELSE /\ SuccessfulRequests' = SuccessfulRequests + 1
              /\ wpc' = [wpc EXCEPT ![w] = "mapLoad"]
              /\ UNCHANGED FailedRequests
    /\ UNCHANGED <<config, TotalRequests, TotalDuration, MinDuration, MaxDuration,
                   StatusCodes, baseReq, chans, mainv, waiterPc, local, history>>

\* RecordOutcome whose error branch lacks the return and falls through to the
\* status-code update.
RecordOutcomeNoReturn(w) ==
    /\ wpc[w] = "record"
    /\ IF local[w].outcome.err
         THEN /\ FailedRequests' = FailedRequests + 1
              /\ UNCHANGED SuccessfulRequests
         ELSE /\ SuccessfulRequests' = SuccessfulRequests + 1
              /\ UNCHANGED FailedRequests
    /\ wpc' = [wpc EXCEPT ![w] = "mapLoad"]
    /\ UNCHANGED <<config, TotalRequests, TotalDuration, MinDuration, MaxDuration,
                   StatusCodes, baseReq, chans, mainv, waiterPc, local, history>>

\* sendRequest, lines 256-269: with err != nil FailedRequests is incremented
\* and sendRequest returns; otherwise the body is drained and
\* SuccessfulRequests is incremented.
RecordOutcome(w) ==
    /\ wpc[w] = "record"
    /\ IF local[w].outcome.err
         THEN /\ FailedRequests' = FailedRequests + 1
              /\ wpc' = [wpc EXCEPT ![w] = "result"]
              /\ UNCHANGED SuccessfulRequests
         ELSE /\ SuccessfulRequests' = SuccessfulRequests + 1
              /\ wpc' = [wpc EXCEPT ![w] = "mapLoad"]
              /\ UNCHANGED FailedRequests
    /\ UNCHANGED <<config, TotalRequests, TotalDuration, MinDuration, MaxDuration,
                   StatusCodes, baseReq, chans, mainv, waiterPc, local, history>>

\* sendRequest, line 272: stats.StatusCodes.Load(resp.StatusCode); count 0
\* stands for ok == false.
MapLoad(w) ==
    /\ wpc[w] = "mapLoad"
    /\ local' = [local EXCEPT ![w].count =
                    IF local[w].outcome.StatusCode \in DOMAIN StatusCodes
                      THEN StatusCodes[local[w].outcome.StatusCode] ELSE 0]
    /\ wpc' = [wpc EXCEPT ![w] = "mapStore"]
    /\ UNCHANGED <<config, stats, baseReq, chans, mainv, waiterPc, history>>

\* sendRequest, lines 273-275: Store(code, count+1), or Store(code, 1).
MapStore(w) ==
    /\ wpc[w] = "mapStore"
    /\ StatusCodes' = (local[w].outcome.StatusCode :> (local[w].count + 1)) @@ StatusCodes
    /\ wpc' = [wpc EXCEPT ![w] = "result"]
    /\ UNCHANGED <<config, TotalRequests, SuccessfulRequests, FailedRequests,
                   TotalDuration, MinDuration, MaxDuration, baseReq, chans,
                   mainv, waiterPc, local, history>>

\* WorkerResult that signals twice for one job.
WorkerResultTwice(w) ==
    /\ wpc[w] = "result"
    /\ results < config.NumRequests
    /\ ~resultsClosed
    /\ results' = results + 2
    /\ local' = [local EXCEPT ![w] = NoLocal]
    /\ wpc' = [wpc EXCEPT ![w] = "range"]
    /\ UNCHANGED <<config, stats, baseReq, jobs, jobsClosed, resultsClosed, wg,
                   mainv, waiterPc, history>>

\* worker, line 217: `results <- true`, which blocks while the buffer is full;
\* the locals of sendRequest are gone.
WorkerResult(w) ==
    /\ wpc[w] = "result"
    /\ results < config.NumRequests
    /\ ~resultsClosed
    /\ results' = results + 1
    /\ local' = [local EXCEPT ![w] = NoLocal]
    /\ wpc' = [wpc EXCEPT ![w] = "range"]
    /\ UNCHANGED <<config, stats, baseReq, jobs, jobsClosed, resultsClosed, wg,
                   mainv, waiterPc, history>>

Worker(w) ==
    \/ WorkerRange(w)
    \/ SendRequestClone(w)
    \/ ClientDo(w)
    \/ AddTotalRequests(w)
    \/ AddTotalDuration(w)
    \/ MinLoad(w)
    \/ MinCAS(w)
    \/ MaxLoad(w)
    \/ MaxCAS(w)
    \/ RecordOutcome(w)
    \/ MapLoad(w)
    \/ MapStore(w)
    \/ WorkerResult(w)

Next ==
    \/ MainStart
    \/ MainCreateBaseRequest
    \/ MainStartWorker
    \/ MainSendJob
    \/ MainProgress
    \/ MainPrintResults
    \/ WaiterWait
    \/ WaiterClose
    \/ \E w \in Workers : Worker(w)

Spec == Init /\ [][Next]_vars

\* ------------------------------------------- runs long enough for progress
\* The progress loop prints at every ProgressEvery-th completion, so a run
\* that prints needs at least ProgressEvery requests.  ProgressSpec runs
\* main, runLoadTest, the waiting goroutine and the worker's loop as above, up
\* to MaxHundreds * ProgressEvery + 1 requests with -c 1, against a server
\* that answers every request with 200 in one time unit, and takes
\* sendRequest (which uses neither channel) as one step.  The worker runs
\* concurrently with main, so the results channel holds every number of
\* signals the progress loop can find in it.
MaxHundreds == 2
ProgressNs == {ProgressEvery - 1, ProgressEvery, MaxHundreds * ProgressEvery + 1}

ProgressInit ==
    /\ config \in [URL : {"ok"}, NumRequests : ProgressNs,
                   Concurrency : {1}, Body : {0}]
    /\ InitState

\* sendRequest, lines 221-277, for a response with status 200 after one time
\* unit: every counter update of the call.
SendRequestWhole(w) ==
    /\ wpc[w] = "clone"
    /\ TotalRequests' = TotalRequests + 1
    /\ TotalDuration' = TotalDuration + 1
    /\ MinDuration' = IF 1 < MinDuration THEN 1 ELSE MinDuration
    /\ MaxDuration' = IF 1 > MaxDuration THEN 1 ELSE MaxDuration
    /\ SuccessfulRequests' = SuccessfulRequests + 1
    /\ StatusCodes' = (200 :> ((IF 200 \in DOMAIN StatusCodes THEN StatusCodes[200] ELSE 0) + 1))
                         @@ StatusCodes
    /\ wpc' = [wpc EXCEPT ![w] = "result"]
    /\ UNCHANGED <<config, FailedRequests, baseReq, chans, mainv, waiterPc, local, history>>

ProgressNext ==
    \/ MainStart
    \/ MainCreateBaseRequest
    \/ MainStartWorker
    \/ MainSendJob
    \/ MainProgress
    \/ MainPrintResults
    \/ WaiterWait
    \/ WaiterClose
    \/ \E w \in Workers : WorkerRange(w) \/ SendRequestWhole(w) \/ WorkerResult(w)

ProgressSpec == ProgressInit /\ [][ProgressNext]_vars

\* The Go scheduler runs a runnable goroutine, and every client.Do returns
\* (with a response, an error or the timeout): while some step is possible,
\* a step is taken.
FairSpec == Spec /\ WF_vars(Next)

\* ================================================================ properties
\* runLoadTest has returned (no fatal setup error).
Returned == mainPc = "returned" \/ (mainPc = "exited" /\ exitCode = 0)

\* The job indices of the run, and those whose client.Do has returned.
RunJobs == 0 .. (config.NumRequests - 1)
ReturnedJobs == {j \in Jobs : history[j].returned}
FailedJobs == {j \in ReturnedJobs : history[j].outcome.err}
ResponseJobs == {j \in ReturnedJobs : ~history[j].outcome.err}

\* The entry of the status-code map, 0 when the key is absent.
StatusCount(code) == IF code \in DOMAIN StatusCodes THEN StatusCodes[code] ELSE 0

\* ----------------------------------------------------------------------- C1
\* C1: when runLoadTest returns, with Concurrency >= 1,
\* SuccessfulRequests + FailedRequests = TotalRequests = NumRequests.
C1_CountersAddUp ==
    (Returned /\ config.Concurrency >= 1) =>
        /\ SuccessfulRequests + FailedRequests = TotalRequests
        /\ TotalRequests = config.NumRequests

\* A returned run of MaxN requests, failures and responses mixed, the jobs
\* spread over two workers.
C1_Witness ==
    /\ Returned /\ config.NumRequests = MaxN
    /\ SuccessfulRequests >= 1 /\ FailedRequests >= 1
    /\ \E i, j \in RunJobs : history[i].by # history[j].by

\* ----------------------------------------------------------------------- C2
\* C2: sendRequest is never called twice with the same index nor by two
\* workers, never with an index outside 0..N-1, and when the run returns
\* (Concurrency >= 1) it has been called exactly once with each index.
C2_EachJobExactlyOnce ==
    /\ \A j \in Jobs : history[j].calls <= 1 /\ Cardinality(history[j].by) = history[j].calls
    /\ \A j \in Jobs \ RunJobs : history[j].calls = 0
    /\ (Returned /\ config.Concurrency >= 1) => \A j \in RunJobs : history[j].calls = 1

\* A returned run in which two workers each executed a job.
C2_Witness ==
    /\ Returned /\ config.NumRequests = MaxN
    /\ \E i, j \in RunJobs : history[i].by # history[j].by /\ history[i].calls = 1
                              /\ history[j].calls = 1

\* ----------------------------------------------------------------------- C3
\* C3: after a run, every status code's entry of StatusCodes equals the number
\* of responses with that code, and the entries add up to SuccessfulRequests.
C3_HistogramExact ==
    Returned =>
        /\ \A code \in StatusCodeValues :
             StatusCount(code) =
                 Cardinality({j \in ResponseJobs : history[j].outcome.StatusCode = code})
        /\ DOMAIN StatusCodes \subseteq StatusCodeValues
        /\ StatusCount(200) + StatusCount(500) = SuccessfulRequests

\* ----------------------------------------------------------------------- C4
\* C4: no worker changes the header or the length of the template, every
\* request carries the template's header, and every request of a run with a
\* configured body transmits the complete body (its body reader is its own).
C4_IndependentRequests ==
    /\ mainPc \in {"startWorkers", "sendJobs", "progress", "returned"}
          => /\ baseReq.Header = createBaseRequest(config).req.Header
             /\ baseReq.ContentLength = config.Body
    /\ \A w \in Workers : wpc[w] = "do" => local[w].Header = baseReq.Header
    /\ \A j \in ReturnedJobs : history[j].bodySent = config.Body

\* ----------------------------------------------------------------------- C5
\* C5: after a run with TotalRequests > 0, MinDuration <= every recorded
\* duration <= MaxDuration.
C5_MinMaxBracket ==
    (Returned /\ TotalRequests > 0) =>
        \A j \in ReturnedJobs :
            /\ MinDuration <= history[j].duration
            /\ history[j].duration <= MaxDuration

\* A returned run whose two workers recorded different durations.
C5_Witness ==
    /\ Returned /\ TotalRequests > 0
    /\ \E i, j \in ReturnedJobs :
         /\ history[i].by # history[j].by
         /\ history[i].duration < history[j].duration
         /\ history[j].duration < Hour

\* ----------------------------------------------------------------------- C6
\* The outcomes of jobs 0..n-1 recorded one at a time by a single thread.
RECURSIVE SerialRecord(_)
SerialRecord(n) ==
    IF n = 0
      THEN [total |-> 0, successful |-> 0, failed |-> 0, totalDuration |-> 0]
      ELSE LET prev == SerialRecord(n - 1)
               h == history[n - 1]
           IN  IF ~h.returned THEN prev
               ELSE [total |-> prev.total + 1,
                     successful |-> prev.successful + (IF h.outcome.err THEN 0 ELSE 1),
                     failed |-> prev.failed + (IF h.outcome.err THEN 1 ELSE 0),
                     totalDuration |-> prev.totalDuration + h.duration]

\* C6: after a run the four totals equal those of the serial recording of the
\* same outcomes.
C6_SerialEquivalentTotals ==
    Returned =>
        LET serial == SerialRecord(MaxN) IN
          /\ TotalRequests = serial.total
          /\ SuccessfulRequests = serial.successful
          /\ FailedRequests = serial.failed
          /\ TotalDuration = serial.totalDuration

\* A returned run of two workers with mixed outcomes and different durations.
C6_Witness ==
    /\ Returned
    /\ \E i \in FailedJobs, j \in ResponseJobs :
         /\ history[i].by # history[j].by
         /\ history[i].duration # history[j].duration

\* ----------------------------------------------------------------------- C7
\* One step keeps a worker in its loop: after a failed outcome is recorded the
\* worker signals progress and fetches the next job, and it leaves the loop
\* only from the receive on the closed and drained jobs channel.
WorkerStaysInLoop(w) ==
    /\ (wpc[w] = "record" /\ local[w].outcome.err /\ wpc'[w] # "record")
          => wpc'[w] = "result"
    /\ (wpc[w] = "result" /\ wpc'[w] # "result") => wpc'[w] = "range"
    /\ (wpc[w] # "exited" /\ wpc'[w] = "exited")
          => wpc[w] = "range" /\ jobsClosed /\ jobs = <<>>

\* C7: a failed request never stops a worker or the run, and every job of a
\* returned run has been attempted.
C7_FailureNeverStopsWorker ==
    /\ [][\A w \in Workers : WorkerStaysInLoop(w)]_vars
    /\ []((Returned /\ config.Concurrency >= 1) => RunJobs \subseteq ReturnedJobs)

\* A worker inside client.Do for a job after it recorded a failure for an
\* earlier one.
C7_Witness ==
    \E w \in Workers, j \in FailedJobs :
        /\ history[j].by = {w}
        /\ wpc[w] = "do"
        /\ local[w].requestNum # j

C9_FailureRecordsFailedOnly ==
    /\ [][\A w \in Workers :
            (wpc[w] = "record" /\ local[w].outcome.err /\ wpc'[w] # "record")
               => /\ FailedRequests' = FailedRequests + 1
                  /\ SuccessfulRequests' = SuccessfulRequests
                  /\ StatusCodes' = StatusCodes
                  /\ wpc'[w] = "result"]_vars
    /\ []((Returned /\ config.Concurrency >= 1 /\ ResponseJobs = {})
             => /\ TotalRequests = config.NumRequests
                /\ FailedRequests = config.NumRequests
                /\ SuccessfulRequests = 0
                /\ StatusCodes = <<>>)

\* A returned run of MaxN requests over MaxC workers in which every request
\* failed.
C9_Witness ==
    /\ Returned
    /\ config.NumRequests = MaxN /\ config.Concurrency = MaxC
    /\ FailedJobs = RunJobs
    /\ \E i, j \in RunJobs : history[i].by # history[j].by

\* ---------------------------------------------------------------------- C10
\* C10: with a template that cannot be built, in every state no worker is
\* started, no job is enqueued, no request is sent, the statistics keep their
\* initial values and nothing is reported; the process ends with status 1.
C10_SetupFailureAborts ==
    createBaseRequest(config).err =>
        /\ \A w \in Workers : wpc[w] = "unborn"
        /\ wg = 0 /\ started = 0 /\ waiterPc = "none"
        /\ jobs = <<>> /\ sent = 0 /\ results = 0
        /\ \A j \in Jobs : history[j].calls = 0
        /\ TotalRequests = 0 /\ SuccessfulRequests = 0 /\ FailedRequests = 0
        /\ TotalDuration = 0 /\ MaxDuration = 0 /\ StatusCodes = <<>>
        /\ MinDuration \in {0, Hour}
        /\ printed.branch = "none"
        /\ mainPc \in {"main", "runLoadTest", "exited"}
        /\ mainPc = "exited" => exitCode = 1 /\ MinDuration = Hour

\* The run of a configuration with requests and workers has aborted on the
\* template.
C10_Witness ==
    /\ createBaseRequest(config).err
    /\ config.NumRequests = MaxN /\ config.Concurrency = MaxC
    /\ mainPc = "exited" /\ exitCode = 1


\* ---------------------------------------------------------------------- C11
\* The process has ended; after a run with Concurrency >= 1, every job has
\* been taken, every started worker has left its loop and the results channel
\* is closed and drained.
Terminated ==
    /\ mainPc = "exited"
    /\ (exitCode = 0 /\ config.Concurrency >= 1) =>
         /\ jobsClosed /\ jobs = <<>> /\ sent = config.NumRequests
         /\ \A w \in Workers : wpc[w] = (IF w < config.Concurrency THEN "exited" ELSE "unborn")
         /\ wg = 0 /\ waiterPc = "done"
         /\ resultsClosed /\ results = 0

\* C11: under fair scheduling every run ends, with everything of Terminated,
\* and no state before the end is a deadlock.
C11_RunTerminates ==
    /\ <>Terminated
    /\ [](mainPc # "exited" => ENABLED Next)

\* The run of MaxN requests over MaxC workers has ended.
C11_Witness ==
    /\ Terminated /\ exitCode = 0
    /\ config.NumRequests = MaxN /\ config.Concurrency = MaxC
    /\ \E i, j \in RunJobs : history[i].by # history[j].by

\* ---------------------------------------------------------------------- C12
\* C12: once runLoadTest has returned every started worker has left its loop
\* and been joined, no worker is inside sendRequest, and what printResults
\* read is the statistics of all N jobs, which no step changes afterwards.
C12_SnapshotAfterAllRecorded ==
    /\ Returned =>
         /\ \A w \in Workers : wpc[w] \in {"exited", "unborn"}
         /\ wg = 0 /\ waiterPc = "done"
         /\ config.Concurrency >= 1 => TotalRequests = config.NumRequests
    /\ printed.branch = "stats" =>
         /\ printed.total = TotalRequests
         /\ printed.successful = SuccessfulRequests
         /\ printed.failed = FailedRequests
         /\ printed.min = MinDuration /\ printed.max = MaxDuration
         /\ printed.statusCodes = StatusCodes
         /\ printed.avgDuration = TotalDuration \div TotalRequests
         /\ config.Concurrency >= 1 => printed.total = config.NumRequests
    /\ printed.branch = "empty" => TotalRequests = 0

\* printResults has read the statistics of a run of MaxN requests by two
\* workers.
C12_Witness ==
    /\ printed.branch = "stats" /\ printed.total = MaxN
    /\ \E i, j \in RunJobs : history[i].by # history[j].by


\* ---------------------------------------------------------------------- C13
\* C13: with N = 0 no request is ever sent, every counter and the cumulative
\* duration stay zero, StatusCodes stays empty, and printResults takes the
\* branch that returns before the average and the rate are computed.
C13_ZeroRequests ==
    config.NumRequests = 0 =>
        /\ \A j \in Jobs : history[j].calls = 0
        /\ \A w \in Workers : wpc[w] \in {"unborn", "range", "exited"}
        /\ jobs = <<>> /\ results = 0 /\ completed = 0
        /\ TotalRequests = 0 /\ SuccessfulRequests = 0 /\ FailedRequests = 0
        /\ TotalDuration = 0 /\ MaxDuration = 0 /\ StatusCodes = <<>>
        /\ printed.branch \in {"none", "empty"}
        /\ Returned /\ mainPc = "exited" => printed.branch = "empty"

\* The run of no requests over MaxC workers has ended and reported.
C13_Witness ==
    /\ config.NumRequests = 0 /\ config.Concurrency = MaxC
    /\ mainPc = "exited" /\ exitCode = 0
    /\ printed.branch = "empty"
    /\ \A w \in Workers : wpc[w] = "exited"

\* ---------------------------------------------------------------------- C14
\* C14: the progress loop has printed exactly 100, 200, ... up to the last
\* multiple of 100 not above its completed counter, in this order and each
\* once, and the counter is N when the loop has ended.
C14_ProgressEveryHundred ==
    /\ progress = [k \in 1 .. (completed \div ProgressEvery) |-> ProgressEvery * k]
    /\ completed <= config.NumRequests
    /\ Returned => completed = config.NumRequests

\* A returned run that printed MaxHundreds progress lines.
C14_Witness ==
    /\ Returned
    /\ config.NumRequests = MaxHundreds * ProgressEvery + 1
    /\ Len(progress) = MaxHundreds


\* ---------------------------------------------------------------------- C15
\* The positions of a worker from the receive of a job to the return of
\* sendRequest, and those between TotalRequests.Add and the success/failure
\* counter.
InSendRequest == {"clone", "do", "addTotal", "addDuration", "minLoad", "minCAS",
                  "maxLoad", "maxCAS", "record", "mapLoad", "mapStore"}
Uncounted == {"addDuration", "minLoad", "minCAS", "maxLoad", "maxCAS", "record"}

\* The sends on results still to come: one for every job not yet enqueued,
\* every job in the jobs channel and every job a worker holds.
PendingSends ==
    (config.NumRequests - sent) + Len(jobs)
      + Cardinality({w \in Workers : wpc[w] \in InSendRequest \cup {"result"}})

\* C15: the signals buffered in results never exceed the capacity N minus the
\* sends still to come, so a worker at `results <- true` finds room (and the
\* channel open) whatever the progress loop has done.
C15_ResultSendNeverBlocks ==
    /\ results + PendingSends <= config.NumRequests
    /\ \A w \in Workers : wpc[w] = "result" => results < config.NumRequests /\ ~resultsClosed

\* A worker about to signal the last job into a buffer holding all the other
\* signals, before the progress loop has started.
C15_Witness ==
    /\ mainPc = "sendJobs" /\ config.NumRequests = MaxN
    /\ results = MaxN - 1
    /\ \E w \in Workers : wpc[w] = "result"

\* ---------------------------------------------------------------------- C16
\* C16: results is closed by the one close of the waiting goroutine, after
\* wg.Wait has returned with every started worker out of its loop; no worker
\* is at its send once the channel is closed; the progress loop of a run with
\* Concurrency >= 1 ends with all N signals consumed.
C16_ResultsClosedAfterBarrier ==
    /\ resultsClosed <=> waiterPc = "done"
    /\ waiterPc \in {"close", "done"} =>
         /\ wg = 0 /\ started = config.Concurrency /\ jobsClosed
         /\ \A w \in Workers : wpc[w] \in {"exited", "unborn"}
    /\ (Returned /\ config.Concurrency >= 1) =>
         completed = config.NumRequests /\ results = 0

\* The channel is closed while the progress loop still has signals to read.
C16_Witness ==
    /\ resultsClosed /\ mainPc = "progress" /\ results = MaxN
    /\ config.Concurrency = MaxC

\* ---------------------------------------------------------------------- C17
\* The workers that have called sendRequest.
ExecWorkers == UNION {history[j].by : j \in Jobs}

\* C17: with C > N at most N workers ever execute a request, a worker that
\* received no job is never inside sendRequest, and the returned run has
\* recorded exactly N requests with all C workers out of their loops.
C17_SurplusWorkersIdle ==
    config.Concurrency > config.NumRequests =>
        /\ Cardinality(ExecWorkers) <= config.NumRequests
        /\ \A w \in Workers \ ExecWorkers : wpc[w] \in {"unborn", "range", "clone", "exited"}
        /\ \A w \in Workers : local[w].requestNum # -1 => local[w].requestNum \in RunJobs
        /\ Returned =>
             /\ TotalRequests = config.NumRequests
             /\ SuccessfulRequests + FailedRequests = config.NumRequests
             /\ \A w \in Workers : w < config.Concurrency => wpc[w] = "exited"

\* A returned run of one request over two workers: one executed it, the other
\* left without a job.
C17_Witness ==
    /\ Returned /\ config.Concurrency = 2 /\ config.NumRequests = 1
    /\ Cardinality(ExecWorkers) = 1
    /\ \A w \in Workers : w < config.Concurrency => wpc[w] = "exited"

\* ---------------------------------------------------------------------- C18
\* C18: after a run that recorded at least one outcome MinDuration is the
\* smallest recorded duration and MaxDuration the largest.
C18_MinMaxExact ==
    (Returned /\ ReturnedJobs # {}) =>
        /\ \E j \in ReturnedJobs : MinDuration = history[j].duration
        /\ \A j \in ReturnedJobs : MinDuration <= history[j].duration
        /\ \E j \in ReturnedJobs : MaxDuration = history[j].duration
        /\ \A j \in ReturnedJobs : history[j].duration <= MaxDuration

\* ---------------------------------------------------------------------- C19
\* The requests in flight: workers between the receive of a job and the
\* return of sendRequest.
InFlight == Cardinality({w \in Workers : wpc[w] \in InSendRequest})

Min2(a, b) == IF a < b THEN a ELSE b

\* C19: the start-workers loop starts exactly C workers, none is started
\* later, and at most min(C, N) requests are in flight.
C19_FixedWorkerCount ==
    /\ started <= config.Concurrency
    /\ Cardinality({w \in Workers : wpc[w] # "unborn"}) = started
    /\ mainPc \in {"sendJobs", "progress", "returned"} \/ Returned
          => started = config.Concurrency
    /\ InFlight <= Min2(config.Concurrency, config.NumRequests)

\* MaxC requests in flight.
C19_Witness ==
    /\ config.Concurrency = MaxC /\ config.NumRequests = MaxN
    /\ InFlight = MaxC
    /\ \A w \in Workers : wpc[w] = "do"

\* ---------------------------------------------------------------------- C20
\* C20: in every state successful + failed <= total <= N, the difference is
\* the number of workers between TotalRequests.Add and their success/failure
\* counter (at most C), and it is zero when no worker is inside sendRequest.
C20_MidRunCounters ==
    /\ SuccessfulRequests + FailedRequests <= TotalRequests
    /\ TotalRequests <= config.NumRequests
    /\ TotalRequests - (SuccessfulRequests + FailedRequests)
         = Cardinality({w \in Workers : wpc[w] \in Uncounted})
    /\ TotalRequests - (SuccessfulRequests + FailedRequests) <= config.Concurrency
    /\ InFlight = 0 => TotalRequests = SuccessfulRequests + FailedRequests

\* Two workers have incremented the total and not yet a success/failure
\* counter.
C20_Witness ==
    /\ TotalRequests = 2 /\ SuccessfulRequests + FailedRequests = 0
    /\ \E v, w \in Workers : v # w /\ wpc[v] = "record" /\ wpc[w] = "minLoad"


\* The other requests of the run whose duration has been measured: only these
\* can have stored into MinDuration or MaxDuration (lines 234-254).
OtherRecords(w) == {j \in ReturnedJobs : j # local[w].requestNum}

\* A step of the run after the store of line 57 never raises MinDuration and
\* never lowers MaxDuration.
MinMaxMonotone ==
    mainPc # "main" => (MinDuration' <= MinDuration /\ MaxDuration' >= MaxDuration)

\* A CompareAndSwap of lines 237 and 248 that fails finds a value that moved
\* past the one its worker loaded, and that value is the duration of another
\* request.
CASFailsOnlyOnChange ==
    \A w \in Workers :
        /\ (wpc[w] = "minCAS" /\ wpc'[w] = "minLoad") =>
               /\ MinDuration < local[w].currentMin
               /\ \E j \in OtherRecords(w) : history[j].duration = MinDuration
        /\ (wpc[w] = "maxCAS" /\ wpc'[w] = "maxLoad") =>
               /\ MaxDuration > local[w].currentMax
               /\ \E j \in OtherRecords(w) : history[j].duration = MaxDuration

\* Within one call of sendRequest each loop is repeated at most once per other
\* record of the run.
RetriesBounded ==
    \A w \in Workers :
        /\ local[w].minRetries <= Cardinality(OtherRecords(w))
        /\ local[w].maxRetries <= Cardinality(OtherRecords(w))
        /\ local[w].requestNum >= 0 =>
               Cardinality(OtherRecords(w)) <= config.NumRequests - 1

\* C21: in every step after the initial store of the one-hour sentinel,
\* MinDuration never increases and MaxDuration never decreases; a worker's
\* compare-and-swap fails only when another request's record changed the value
\* since the worker loaded it; and so the retries of a worker's min loop and
\* of its max loop within one call are bounded by the number of other records
\* of the run.
C21_LockFreeProgress ==
    /\ [][MinMaxMonotone /\ CASFailsOnlyOnChange]_vars
    /\ []RetriesBounded

\* One worker has repeated its min loop and another its max loop.
C21_Witness ==
    \E v, w \in Workers :
        /\ v # w
        /\ local[v].minRetries = 1
        /\ local[w].maxRetries = 1

====
